---------------------------- MODULE Spec2Model ----------------------------
(***************************************************************************)
(* Model of the typing-session engine of wpm-rust (src/src/main.rs):       *)
(* quote selection and word wrapping (App::new_quote), the per-keystroke   *)
(* state machine (App::handle_key_event) and the commit tally              *)
(* (App::count_mistakes).                                                  *)
(*                                                                         *)
(* A Rust String is a sequence of chars; a char is a one-element token:    *)
(* "a" (U+0061), " " (U+0020), "eacute" (U+00E9, two bytes in UTF-8) and   *)
(* "nbsp" (U+00A0, White_Space, two bytes in UTF-8).  String::len() is the *)
(* number of bytes, Vec<char>::len() and chars().nth() count chars.        *)
(* Indices are 0-based in the code and 1-based in the sequences here.      *)
(* A panic ends the process: it is recorded in the variable panic and no   *)
(* further event is handled.  Timestamps are kept only as None / Some.     *)
(***************************************************************************)
EXTENDS Integers, Sequences, FiniteSets, TLC

VARIABLES
    data,             \* the corpus parsed from ENGLISH_JSON (main.rs:220)
    started,          \* main has called app.new_quote() (main.rs:59)
    panic,            \* "" or the message of the panic that ended the process
    picked,           \* id of the quote new_quote picked last (main.rs:237), 0: none
    correct,          \* App.correct
    incorrect,        \* App.incorrect
    words,            \* App.words
    current_line,     \* App.current_line
    selected_group,   \* App.selected_group
    groups,           \* App.groups
    sentence,         \* App.sentence: the lines of the quote
    sentence_source,  \* App.sentence_source
    typed,            \* App.typed: the committed lines as typed
    typing,           \* App.typing: the buffer of the current line
    exit,             \* App.exit
    done,             \* App.done: "None" or "Some" (the timestamp is not kept)
    wpm_call          \* <<>> or the one evaluation of get_wpm recorded: its
                      \* arguments and what it computed (render's own calls,
                      \* made with clock readings, are not recorded)

vars == <<data, started, panic, picked, correct, incorrect, words,
          current_line, selected_group, groups, sentence, sentence_source,
          typed, typing, exit, done, wpm_call>>

\* The Session fields of the specification (lines, current_line, buffer,
\* committed, correct, incorrect, words, selected_group, finished_at).
session == <<sentence, current_line, typing, typed, correct, incorrect,
             words, selected_group, done>>

-----------------------------------------------------------------------------
(* Bounds of the model *)

\* Largest number of buffer positions the modelled user gets wrong at once.
MaxWrong == 1

\* Largest number of words of a generated quote text.
MaxWords == 3

\* Largest selected_group handed to new_quote as an input.
MaxSel == 3

\* Largest clock reading handed to get_wpm, in tenths of a second.
MaxTime == 8

\* Largest words count handed to get_wpm.
MaxWpmWords == 3

-----------------------------------------------------------------------------
(* Characters and strings *)

MAX_LENGTH_PER_LINE == 50

\* char::is_whitespace
IsWhitespace(c) == c \in {" ", "nbsp"}

\* Number of bytes of a char in UTF-8
Utf8Len(c) == IF c \in {"eacute", "nbsp"} THEN 2 ELSE 1

\* String::len(): the number of bytes, one per char and one more for each
\* char of two bytes
ByteLen(s) == Len(s) + Cardinality({i \in 1..Len(s) : Utf8Len(s[i]) = 2})

\* s.chars().nth(i), i counted from 0; "None" past the end
Nth(s, i) == IF i < Len(s) THEN s[i + 1] ELSE "None"

\* s.chars().nth(i).unwrap_or(' ')
NthOrSpace(s, i) == IF i < Len(s) THEN s[i + 1] ELSE " "

\* n copies of the char c
Rep(c, n) == [i \in 1..n |-> c]

\* str::split(" "): the pieces between the U+0020 separators, empty pieces kept
RECURSIVE Split(_)
Split(s) ==
    IF \A i \in 1..Len(s) : s[i] # " "
    THEN <<s>>
    ELSE LET k == CHOOSE i \in 1..Len(s) :
                     s[i] = " " /\ \A j \in 1..(i - 1) : s[j] # " "
         IN  <<SubSeq(s, 1, k - 1)>> \o Split(SubSeq(s, k + 1, Len(s)))

\* The concatenation of the strings of a sequence
RECURSIVE Concat(_)
Concat(ss) == IF ss = <<>> THEN <<>> ELSE Head(ss) \o Concat(Tail(ss))


-----------------------------------------------------------------------------
(* LineWrapper: the wrapping loop of App::new_quote *)

\* for word in picked.text.split(" ") { ... }: the loop body, folded over the
\* words from the sentence built so far
RECURSIVE WrapWords(_, _)
WrapWords(ws, sent) ==
    IF ws = <<>> THEN sent
    ELSE LET word == Head(ws) IN
         IF sent = <<>>
         THEN WrapWords(Tail(ws), <<word>>)
         ELSE LET l == sent[Len(sent)] IN
              IF ByteLen(l) + 1 + ByteLen(word) > MAX_LENGTH_PER_LINE
              THEN WrapWords(Tail(ws), Append(sent, word))
              ELSE WrapWords(Tail(ws),
                             [sent EXCEPT ![Len(sent)] = (l \o <<" ">>) \o word])

\* Mutant of PushTrailingSpaces: the last line gets a trailing space too
PushTrailingSpacesOnEveryLine(sent) ==
    [i \in 1..Len(sent) |-> Append(sent[i], " ")]

\* for i in 0..self.sentence.len().saturating_sub(1) { push_str(" ") }
PushTrailingSpaces(sent) ==
    [i \in 1..Len(sent) |-> IF i < Len(sent) THEN Append(sent[i], " ") ELSE sent[i]]

\* The sentence new_quote stores for a quote text
Wrap(text) == PushTrailingSpaces(WrapWords(Split(text), <<>>))

-----------------------------------------------------------------------------
(* CorpusProvider: the quote selection of App::new_quote *)

\* if self.selected_group > data.groups.len() { self.selected_group = 0 }
ClampGroup(sel, ngroups) == IF sel > ngroups THEN 0 ELSE sel

\* Mutant of ValidQuote: the lower bound is inclusive
ValidQuoteFromMin(group, q) == group[1] <= q.length /\ q.length < group[2]

\* .filter(|q| group[0] < q.length && q.length < group[1])
ValidQuote(group, q) == group[1] < q.length /\ q.length < group[2]

\* valid_quotes for the group of index sel (0-based) of the corpus d
ValidQuotes(d, sel) ==
    {i \in 1..Len(d.quotes) : ValidQuote(d.groups[sel + 1], d.quotes[i])}

\* Whether the byte offset k is a char boundary of the string s
\* (str::is_char_boundary): 0, the end, or the offset a char starts at
IsCharBoundary(s, k) == \E j \in 0..Len(s) : ByteLen(SubSeq(s, 1, j)) = k

\* Widget::render as far as it can fail: before Done it slices the current
\* line at the byte offset typing.len(), which panics off a char boundary
\* (and past the end of the line), and indexing the current line panics
\* when there is no such line; the Done screen indexes nothing.
RenderPanics(sent, line, buf, fin) ==
    /\ fin = "None"
    /\ \/ line >= Len(sent)
       \/ ~IsCharBoundary(sent[line + 1], Len(buf))

\* App::run: the terminal.draw that follows the handling of an event (and
\* the call of new_quote in main), on the state the handler left
Draw ==
    panic' = IF RenderPanics(sentence', current_line', typing', done')
             THEN "byte index is not a char boundary: render"
             ELSE ""

\* App::new_quote, called with self.selected_group = sel, followed by the
\* draw of the run loop.  It panics at data.groups[self.selected_group] when
\* the index is out of range and at .expect("Could not pick a quote") when
\* no quote is valid; picked is the local of the call (0: no quote was
\* picked).
new_quote(sel) ==
    LET g == ClampGroup(sel, Len(data.groups)) IN
    /\ groups' = data.groups
    /\ selected_group' = g
    /\ IF g >= Len(data.groups)
       THEN /\ panic' = "index out of bounds: data.groups[self.selected_group]"
            /\ picked' = 0
            /\ UNCHANGED <<sentence, sentence_source>>
       ELSE IF ValidQuotes(data, g) = {}
       THEN /\ panic' = "Could not pick a quote"
            /\ picked' = 0
            /\ UNCHANGED <<sentence, sentence_source>>
       ELSE \E i \in ValidQuotes(data, g) :
                /\ picked' = data.quotes[i].id
                /\ sentence_source' = data.quotes[i].source
                /\ sentence' = Wrap(data.quotes[i].text)
                /\ Draw

-----------------------------------------------------------------------------
(* The commit tally *)

\* App::count_mistakes: the increments of correct and incorrect for the
\* buffer typing against the line part
count_mistakes(buf, part) ==
    LET hits == {i \in 0..(Len(buf) - 1) : buf[i + 1] = NthOrSpace(part, i)}
    IN  [correct |-> Cardinality(hits), incorrect |-> Len(buf) - Cardinality(hits)]

\* u32::saturating_sub
SaturatingSub(a, b) == IF a >= b THEN a - b ELSE 0

-----------------------------------------------------------------------------
(* TypingSession: App::handle_key_event *)

\* The run loop handles events once main has called new_quote, until Esc or
\* a panic.
Running == started /\ ~exit /\ panic = ""

\* Mutant of Idle: the committed lines are not looked at
IdleBufferOnly == Len(typing) = 0

\* self.typing.len() == 0 && self.current_line == 0
Idle == Len(typing) = 0 /\ current_line = 0

\* KeyCode::Left: the group before sel, of ngroups = self.groups.len()
PrevGroup(sel, ngroups) == IF sel = 0 THEN SaturatingSub(ngroups, 1) ELSE sel - 1

\* KeyCode::Right: the group after sel
NextGroup(sel, ngroups) == IF sel + 1 >= ngroups THEN 0 ELSE sel + 1

\* Mutant of Rejects: a char that differs from the expected one is turned down
RejectsMismatch(c, expected) ==
    \/ IsWhitespace(c) /\ expected # " "
    \/ ~IsWhitespace(c) /\ expected = " "
    \/ c # expected

\* Mutant of Rejects: the first early return is missing
RejectsNonWhitespaceOnly(c, expected) == ~IsWhitespace(c) /\ expected = " "

\* Mutant of Rejects: the second early return is missing
RejectsWhitespaceOnly(c, expected) == IsWhitespace(c) /\ expected # " "

\* KeyCode::Char: the two early returns; expected is part.chars().nth(typing.len())
Rejects(c, expected) ==
    \/ IsWhitespace(c) /\ expected # " "
    \/ ~IsWhitespace(c) /\ expected = " "

\* if part.len() == self.typing.len(): bytes of the line against chars typed
LineComplete(part, buf) == ByteLen(part) = Len(buf)

\* Mutant of PastLastLine: the line before the last one already ends the session
PastLastLineEarly(line, nlines) == line + 1 >= nlines

\* if self.current_line + 1 > self.sentence.len()
PastLastLine(line, nlines) == line + 1 > nlines

\* main: app.new_quote() before app.run(), and the first draw
Startup ==
    /\ ~started /\ panic = ""
    /\ started' = TRUE
    /\ UNCHANGED <<data, wpm_call, correct, incorrect, words, current_line, typed, typing,
                   exit, done>>
    /\ new_quote(selected_group)

\* KeyCode::Esc: the loop ends, nothing is drawn any more
KeyEsc ==
    /\ Running
    /\ exit' = TRUE
    /\ UNCHANGED <<data, wpm_call, started, panic, picked, correct, incorrect, words,
                   current_line, selected_group, groups, sentence,
                   sentence_source, typed, typing, done>>

KeyLeft ==
    /\ Running
    /\ IF ~Idle
       THEN UNCHANGED vars
       ELSE /\ UNCHANGED <<data, wpm_call, started, correct, incorrect, words,
                           current_line, typed, typing, exit, done>>
            /\ new_quote(PrevGroup(selected_group, Len(groups)))

KeyRight ==
    /\ Running
    /\ IF ~Idle
       THEN UNCHANGED vars
       ELSE /\ UNCHANGED <<data, wpm_call, started, correct, incorrect, words,
                           current_line, typed, typing, exit, done>>
            /\ new_quote(NextGroup(selected_group, Len(groups)))

\* Mutant of KeyTab: the restart after completion keeps the word count
KeyTabKeepsWords ==
    /\ Running
    /\ IF Idle
       THEN /\ UNCHANGED <<data, wpm_call, started, correct, incorrect, words,
                           current_line, typed, typing, exit, done>>
            /\ new_quote(selected_group)
       ELSE IF done # "None"
       THEN /\ correct' = 0
            /\ incorrect' = 0
            /\ current_line' = 0
            /\ typing' = <<>>
            /\ typed' = <<>>
            /\ done' = "None"
            /\ UNCHANGED <<data, wpm_call, started, exit, words>>
            /\ new_quote(selected_group)
       ELSE UNCHANGED vars

\* KeyCode::Tab
KeyTab ==
    /\ Running
    /\ IF Idle
       THEN /\ UNCHANGED <<data, wpm_call, started, correct, incorrect, words,
                           current_line, typed, typing, exit, done>>
            /\ new_quote(selected_group)
       ELSE IF done # "None"
       THEN /\ correct' = 0
            /\ incorrect' = 0
            /\ words' = 0
            /\ current_line' = 0
            /\ typing' = <<>>
            /\ typed' = <<>>
            /\ done' = "None"
            /\ UNCHANGED <<data, wpm_call, started, exit>>
            /\ new_quote(selected_group)
       ELSE UNCHANGED vars

KeyChar(c) ==
    /\ Running
    /\ IF current_line >= Len(sentence)
       THEN /\ panic' = "index out of bounds: self.sentence[self.current_line]"
            /\ UNCHANGED <<data, wpm_call, started, picked, correct, incorrect, words,
                           current_line, selected_group, groups, sentence,
                           sentence_source, typed, typing, exit, done>>
       ELSE LET part == sentence[current_line + 1]
                buf  == Append(typing, c)
            IN
            IF Rejects(c, Nth(part, Len(typing)))
            THEN UNCHANGED vars
            ELSE /\ words' = IF IsWhitespace(c) THEN words + 1 ELSE words
                 /\ IF LineComplete(part, buf)
                    THEN /\ correct' = correct + count_mistakes(buf, part).correct
                         /\ incorrect' = incorrect + count_mistakes(buf, part).incorrect
                         /\ typed' = Append(typed, buf)
                         /\ typing' = <<>>
                         /\ current_line' = current_line + 1
                         /\ done' = IF PastLastLine(current_line + 1, Len(sentence))
                                    THEN "Some" ELSE done
                    ELSE /\ typing' = buf
                         /\ UNCHANGED <<correct, incorrect, typed, current_line, done>>
                 /\ UNCHANGED <<data, wpm_call, started, picked, selected_group,
                                groups, sentence, sentence_source, exit>>
                 /\ Draw

\* Mutant of WordsAfterPop: every removed char lowers words
WordsAfterPopOfAnyChar(w, popped) == SaturatingSub(w, 1)

\* if is.is_whitespace() { self.words = self.words.saturating_sub(1) }
WordsAfterPop(w, popped) ==
    IF IsWhitespace(popped) THEN SaturatingSub(w, 1) ELSE w

\* Mutant of KeyBackspace: on an empty buffer it reopens the line committed
\* last
KeyBackspaceIntoCommitted ==
    /\ Running
    /\ IF typing = <<>>
       THEN IF current_line > 0 /\ done = "None"
            THEN /\ current_line' = current_line - 1
                 /\ typing' = typed[Len(typed)]
                 /\ typed' = SubSeq(typed, 1, Len(typed) - 1)
                 /\ UNCHANGED <<data, wpm_call, started, panic, picked, correct,
                                incorrect, words, selected_group, groups,
                                sentence, sentence_source, exit, done>>
            ELSE UNCHANGED vars
       ELSE /\ typing' = SubSeq(typing, 1, Len(typing) - 1)
            /\ words' = WordsAfterPop(words, typing[Len(typing)])
            /\ UNCHANGED <<data, wpm_call, started, picked, correct, incorrect,
                           current_line, selected_group, groups, sentence,
                           sentence_source, typed, exit, done>>
            /\ Draw

KeyBackspace ==
    /\ Running
    /\ IF typing = <<>>
       THEN UNCHANGED vars
       ELSE /\ typing' = SubSeq(typing, 1, Len(typing) - 1)
            /\ words' = WordsAfterPop(words, typing[Len(typing)])
            /\ UNCHANGED <<data, wpm_call, started, picked, correct, incorrect,
                           current_line, selected_group, groups, sentence,
                           sentence_source, typed, exit, done>>
            /\ Draw

-----------------------------------------------------------------------------
(* The corpora and the keys the model is run on *)

\* A quote of the corpus; length is the corpus-supplied field
Quote(id, text, length) ==
    [id |-> id, text |-> text, source |-> <<"source", id>>, length |-> length]

\* "aa a": three words on one line
ShortText == <<"a", "a", " ", "a">>

\* One word holding a two-byte char
AccentText == <<"eacute">>

\* 25 + 1 + 24 chars fill a line exactly; the third word starts a second line
LongText ==
    Rep("a", MAX_LENGTH_PER_LINE \div 2) \o <<" ">>
      \o Rep("a", MAX_LENGTH_PER_LINE \div 2 - 1) \o <<" ", "a">>

\* Three groups, the last one without any quote; quote 4 has a length on the
\* boundary of the first two groups
MainData ==
    [groups |-> << <<0, 5>>, <<5, 60>>, <<60, 90>> >>,
     quotes |-> << Quote(1, ShortText, 4), Quote(2, AccentText, 1),
                   Quote(3, LongText, 52), Quote(4, <<"a", " ", "a">>, 5) >>]

\* The scenario corpus: one group, one quote
OneGroupData ==
    [groups |-> << <<0, 100>> >>, quotes |-> << Quote(1, ShortText, 4) >>]

\* A corpus without groups
NoGroupData == [groups |-> <<>>, quotes |-> << Quote(1, ShortText, 4) >>]

\* A quote with an empty text, under a length field that makes it eligible
EmptyTextData == [groups |-> << <<0, 100>> >>, quotes |-> << Quote(1, <<>>, 1) >>]

Corpora == {MainData, OneGroupData, EmptyTextData}

\* The word lengths around the line width, and the words built from them
WordLens == {0, 1, MAX_LENGTH_PER_LINE \div 2 - 1, MAX_LENGTH_PER_LINE \div 2,
             MAX_LENGTH_PER_LINE, MAX_LENGTH_PER_LINE + 1}

GenWords == {Rep("a", n) : n \in WordLens} \cup {<<"eacute">>}

\* The words of ws joined by single spaces
RECURSIVE Join(_)
Join(ws) == IF Len(ws) = 1 THEN ws[1] ELSE (ws[1] \o <<" ">>) \o Join(Tail(ws))

GenTexts ==
    UNION {{Join(ws) : ws \in [1..n -> GenWords]} : n \in 1..MaxWords}

\* One-quote corpora over the generated texts, the length field being the
\* number of chars of the text
GenCorpora ==
    {[groups |-> << <<0, 1000>> >>, quotes |-> << Quote(1, t, Len(t)) >>] :
        t \in GenTexts}

QuoteCorpora == GenCorpora \cup {MainData, NoGroupData}

\* The chars a key event may carry
Keys == {"a", "eacute", " ", "nbsp"}

\* The modelled user has at most MaxWrong wrong positions in the buffer
WithinBudget(c) ==
    current_line < Len(sentence) =>
        count_mistakes(Append(typing, c), sentence[current_line + 1]).incorrect
            <= MaxWrong

-----------------------------------------------------------------------------
(* Specifications *)

\* The App value main constructs, for a corpus d and a selected_group sel
Constructed(d, sel) ==
    /\ data = d
    /\ started = FALSE
    /\ panic = ""
    /\ picked = 0
    /\ correct = 0
    /\ incorrect = 0
    /\ words = 0
    /\ selected_group = sel
    /\ current_line = 0
    /\ groups = <<>>
    /\ sentence = <<>>
    /\ sentence_source = <<"loading quote...">>
    /\ typing = <<>>
    /\ typed = <<>>
    /\ exit = FALSE
    /\ done = "None"
    /\ wpm_call = <<>>

Init == \E d \in Corpora : Constructed(d, 0)

Next ==
    \/ Startup
    \/ KeyEsc
    \/ KeyLeft
    \/ KeyRight
    \/ KeyTab
    \/ \E c \in Keys : WithinBudget(c) /\ KeyChar(c)
    \/ KeyBackspace

Spec == Init /\ [][Next]_vars

\* new_quote as a function of the corpus and of self.selected_group: quote
\* requests only (startup, Left, Right, Tab), no typing
InitQuote == \E d \in QuoteCorpora : \E sel \in 0..MaxSel : Constructed(d, sel)

NextQuote ==
    \/ Startup
    \/ KeyEsc
    \/ KeyLeft
    \/ KeyRight
    \/ KeyTab

SpecQuote == InitQuote /\ [][NextQuote]_vars

-----------------------------------------------------------------------------
(* StatsEngine: get_wpm *)

\* get_wpm(words, start, end), the clock readings in tenths of a second.
\* A rational is kept as <<numerator, denominator>>: minutes is
\* duration.as_secs_f32() / 60., that is ticks / 600, and 0.01 minute is 6
\* ticks; wpm is words / minutes; rounded is wpm.round() as u32; tier is the
\* rank of the emoji (1 for wpm < 10, ..., 7 for wpm >= 125).
get_wpm(w, start, end) ==
    LET duration == IF end >= start THEN end - start ELSE 0
        ticks    == IF duration = 0 THEN 6 ELSE duration
        num      == w * 600
    IN  [words   |-> w,
         start   |-> start,
         end     |-> end,
         minutes |-> <<ticks, 600>>,
         wpm     |-> <<num, ticks>>,
         rounded |-> (2 * num + ticks) \div (2 * ticks),
         tier    |-> IF num < 10 * ticks THEN 1
                     ELSE IF num < 25 * ticks THEN 2
                     ELSE IF num < 50 * ticks THEN 3
                     ELSE IF num < 75 * ticks THEN 4
                     ELSE IF num < 100 * ticks THEN 5
                     ELSE IF num < 125 * ticks THEN 6
                     ELSE 7]

\* One evaluation of get_wpm on the arguments w, s, e
GetWpm(w, s, e) ==
    /\ wpm_call' = <<get_wpm(w, s, e)>>
    /\ UNCHANGED <<data, started, panic, picked, correct, incorrect, words,
                   current_line, selected_group, groups, sentence,
                   sentence_source, typed, typing, exit, done>>

\* get_wpm as a function of its arguments
InitWpm == Constructed(OneGroupData, 0)

NextWpm ==
    \E w \in 0..MaxWpmWords : \E s \in 0..MaxTime : \E e \in 0..MaxTime :
        GetWpm(w, s, e)

SpecWpm == InitWpm /\ [][NextWpm]_vars

-----------------------------------------------------------------------------
(* Helpers of the properties *)

\* The quote of the corpus d with the given id
QuoteById(d, id) ==
    d.quotes[CHOOSE i \in 1..Len(d.quotes) : d.quotes[i].id = id]

\* The ids of the quotes new_quote may pick for the group of index sel
ValidIds(d, sel) == {d.quotes[i].id : i \in ValidQuotes(d, sel)}

\* Some key event other than Tab and Esc is handled
TypingOrNavigationKey ==
    \/ \E c \in Keys : KeyChar(c)
    \/ KeyBackspace
    \/ KeyLeft
    \/ KeyRight

-----------------------------------------------------------------------------
(* C1 *)

\* C1: once finished_at is set, a Character, Backspace, Left or Right event
\* is handled without failing and leaves every Session field unchanged.
C1_DoneIgnoresTypingAndNavigation ==
    [][(done # "None" /\ TypingOrNavigationKey)
          => (panic' = "" /\ UNCHANGED session)]_vars

-----------------------------------------------------------------------------
(* C2 *)

\* C2: the quote chosen by a new-quote request lies strictly inside the
\* selected group: group.min < quote.length < group.max, the length being
\* the field of the corpus; a length equal to a bound is never chosen.
C2_ChosenQuoteStrictlyInsideGroup ==
    picked # 0 =>
        LET q == QuoteById(data, picked)
            g == data.groups[selected_group + 1]
        IN  /\ selected_group < Len(data.groups)
            /\ g[1] < q.length /\ q.length < g[2]
            /\ q.length # g[1] /\ q.length # g[2]

\* A quote was chosen from a group one of whose bounds is the length of
\* another quote of the corpus, with a length field that is not the number
\* of chars of its text.
C2_Witness ==
    /\ picked # 0
    /\ \E i \in 1..Len(data.quotes) :
          data.quotes[i].length \in
              {data.groups[selected_group + 1][1], data.groups[selected_group + 1][2]}
    /\ \E i \in 1..Len(data.quotes) :
          data.quotes[i].length # Len(data.quotes[i].text)

-----------------------------------------------------------------------------
(* C3 *)

\* C3: when no quote satisfies the bounds of the selected group, a new-quote
\* request leaves the run going in a defined session state: the process has
\* not aborted.
C3_EmptySelectionIsRecoverable ==
    (/\ started
     /\ selected_group < Len(data.groups)
     /\ ValidQuotes(data, selected_group) = {})
        => panic = ""

-----------------------------------------------------------------------------
(* C4 *)

\* C4: a new-quote request made with a group index g >= groups.len(),
\* g = groups.len() included, treats the index as 0: selected_group becomes
\* 0 and a quote of group 0 is selected, without failing.  (Stated for a
\* corpus whose group 0 exists and has a valid quote; the request with an
\* arbitrary index is the one main makes on the constructed App.)
C4_OutOfRangeGroupTreatedAsZero ==
    [][(/\ Startup
        /\ selected_group >= Len(data.groups)
        /\ Len(data.groups) > 0
        /\ ValidQuotes(data, 0) # {})
          => (/\ selected_group' = 0
              /\ panic' = ""
              /\ picked' \in ValidIds(data, 0))]_vars

-----------------------------------------------------------------------------
(* C5 *)

\* C5: wrap round trip: the lines of the session, concatenated in order
\* with their trailing spaces, are exactly the text of the chosen quote.
C5_WrapRoundTrip ==
    picked # 0 => Concat(sentence) = QuoteById(data, picked).text

\* A quote was wrapped into two lines, the first holding two words and the
\* trailing space.
C5_Witness ==
    /\ picked # 0
    /\ Len(sentence) = 2
    /\ Len(Split(sentence[1])) = 3
    /\ sentence[1][Len(sentence[1])] = " "

-----------------------------------------------------------------------------
(* C6 *)

\* C6: no line of the session (trailing space included) is longer than
\* MAX_LENGTH_PER_LINE, unless it holds a word that is itself longer.
C6_LinesWithinWidth ==
    picked # 0 =>
        \A i \in 1..Len(sentence) :
            \/ Len(sentence[i]) <= MAX_LENGTH_PER_LINE
            \/ \E k \in 1..Len(Split(sentence[i])) :
                   Len(Split(sentence[i])[k]) > MAX_LENGTH_PER_LINE

-----------------------------------------------------------------------------
(* C7 *)

\* The char c is accepted: the buffer took it, or the line it completed was
\* committed
Accepted(c) ==
    \/ typing' = Append(typing, c) /\ typed' = typed
    \/ typing' = <<>> /\ typed' = Append(typed, Append(typing, c))

\* C7: a line is committed exactly when the buffer holds as many chars as the
\* line; the commit adds to correct the number of positions where buffer and
\* line agree and to incorrect the number of the others, so that
\* correct + incorrect grows by the number of chars of the line.
C7_CommitAtCharCount ==
    [][\A c \in Keys :
         (KeyChar(c) /\ current_line < Len(sentence) /\ Accepted(c)) =>
            LET line == sentence[current_line + 1]
                buf  == Append(typing, c)
                same == {i \in 1..Len(line) : buf[i] = line[i]}
            IN  /\ (current_line' = current_line + 1) <=> (Len(buf) = Len(line))
                /\ (current_line' = current_line + 1) =>
                      /\ typed' = Append(typed, buf)
                      /\ correct' = correct + Cardinality(same)
                      /\ incorrect' = incorrect + (Len(line) - Cardinality(same))
                      /\ correct' + incorrect' = correct + incorrect + Len(line)]_vars

-----------------------------------------------------------------------------
(* C8 *)

\* C8: words grows by one on every accepted whitespace char and by nothing
\* on any other char event; Backspace lowers it by one, not below 0, when
\* the char it removes is whitespace, and leaves it alone otherwise.
C8_WordsCountsWhitespace ==
    [][/\ \A c \in Keys :
            KeyChar(c) =>
                words' = IF IsWhitespace(c) /\ Accepted(c) THEN words + 1 ELSE words
       /\ KeyBackspace =>
            words' = IF typing # <<>> /\ IsWhitespace(typing[Len(typing)])
                     THEN (IF words > 0 THEN words - 1 ELSE 0)
                     ELSE words]_vars

\* A whitespace char other than the space was accepted and counted, after a
\* char that is not whitespace: Backspace can remove either kind.
C8_Witness ==
    /\ Running
    /\ Len(typing) >= 2
    /\ typing[Len(typing)] = "nbsp"
    /\ ~IsWhitespace(typing[Len(typing) - 1])
    /\ words = 1

-----------------------------------------------------------------------------
(* C9 *)

\* C9: on a corpus with at least one group selected_group stays within
\* 0..groups.len()-1; Left and Right in Idle move it one step with
\* wrap-around, and the quote of the new session is drawn from the group
\* thus selected.
C9_GroupNavigationWraps ==
    [][/\ Len(data.groups) >= 1 => selected_group' \in 0..(Len(data.groups) - 1)
       /\ (KeyLeft /\ Idle) =>
            /\ selected_group' = IF selected_group = 0 THEN Len(groups) - 1
                                 ELSE selected_group - 1
            /\ picked' \in ValidIds(data, selected_group')
       /\ (KeyRight /\ Idle) =>
            /\ selected_group' = IF selected_group = Len(groups) - 1 THEN 0
                                 ELSE selected_group + 1
            /\ picked' \in ValidIds(data, selected_group')]_vars

-----------------------------------------------------------------------------
(* C10 *)

\* The text is made of non-empty words separated by single spaces
SingleSpaced(text) ==
    \A k \in 1..Len(Split(text)) : Split(text)[k] # <<>>

\* Every char typed so far is the expected one: the committed lines are the
\* lines, the buffer is a prefix of the current line
TypedExactly ==
    /\ current_line <= Len(sentence)
    /\ typed = SubSeq(sentence, 1, current_line)
    /\ current_line < Len(sentence) =>
          /\ Len(typing) <= Len(sentence[current_line + 1])
          /\ typing = SubSeq(sentence[current_line + 1], 1, Len(typing))

\* The number of spaces of the string s
Spaces(s) == Cardinality({i \in 1..Len(s) : s[i] = " "})

\* C10: for a quote of words separated by single spaces, typing the chars
\* of the wrapped lines exactly commits every line as soon as it is typed in
\* full, tallies every char as correct, counts one word per space, and ends
\* in Done when the last line is typed: correct is then the number of chars
\* of the quote, incorrect 0, words its number of spaces, committed = lines.
C10_ExactTypingCompletes ==
    (/\ picked # 0
     /\ SingleSpaced(QuoteById(data, picked).text)
     /\ TypedExactly)
        => /\ current_line < Len(sentence) =>
                 /\ done = "None"
                 /\ Len(typing) < Len(sentence[current_line + 1])
           /\ correct = Len(Concat(typed))
           /\ incorrect = 0
           /\ words = Spaces(Concat(typed) \o typing)
           /\ current_line = Len(sentence) =>
                 /\ done = "Some"
                 /\ typed = sentence
                 /\ correct = Len(QuoteById(data, picked).text)
                 /\ words = Spaces(QuoteById(data, picked).text)

-----------------------------------------------------------------------------
(* C11 *)

\* C11: Backspace never crosses a line-commit boundary: it leaves
\* current_line, committed, correct, incorrect, lines and finished_at
\* unchanged, and on an empty buffer it changes nothing at all.
C11_BackspaceStaysInLine ==
    [][KeyBackspace =>
          /\ UNCHANGED <<current_line, typed, correct, incorrect, sentence, done>>
          /\ typing = <<>> => UNCHANGED vars]_vars

\* A line has been committed, the next one is not started and the session
\* is not Done: Backspace meets an empty buffer behind a commit boundary.
C11_Witness ==
    /\ Running
    /\ current_line > 0
    /\ typing = <<>>
    /\ done = "None"
    /\ words > 0

-----------------------------------------------------------------------------
(* C12 *)

\* C12: get_wpm floors the elapsed minutes at 0.01: minutes is
\* max(0.01, elapsed_seconds / 60), a negative elapsed time counting as
\* zero, so that wpm never exceeds 100 * words.
C12_MinutesFlooredAtHundredth ==
    wpm_call # <<>> =>
        LET r       == wpm_call[1]
            elapsed == IF r.end >= r.start THEN r.end - r.start ELSE 0
        IN  /\ r.minutes = <<IF elapsed > 6 THEN elapsed ELSE 6, 600>>
            /\ r.wpm[1] <= 100 * r.words * r.wpm[2]

-----------------------------------------------------------------------------
(* C13 *)

\* The session is live and the buffer stands at a char of the current line
AtExpectedChar ==
    /\ Running
    /\ done = "None"
    /\ current_line < Len(sentence)
    /\ Len(typing) < Len(sentence[current_line + 1])

\* The positions of the string got that lie within the string want hold
\* whitespace exactly where want holds a space
SpacesAligned(got, want) ==
    \A i \in 1..Len(got) :
        i <= Len(want) => (IsWhitespace(got[i]) <=> want[i] = " ")

\* C13: with expected = lines[current_line][buffer.len()], a char c is
\* appended to the buffer iff (c is whitespace) <=> (expected is a space); a
\* rejected char changes nothing.  Hence every position typed, in the buffer
\* and in the committed lines, holds whitespace exactly where the expected
\* char is a space.
C13_AcceptanceRule ==
    /\ AtExpectedChar =>
          \A c \in Keys :
              LET expected == sentence[current_line + 1][Len(typing) + 1] IN
              IF IsWhitespace(c) <=> expected = " "
              THEN /\ ENABLED (KeyChar(c) /\ Accepted(c))
                   /\ ~ENABLED (KeyChar(c) /\ ~Accepted(c))
              ELSE /\ ENABLED (KeyChar(c) /\ UNCHANGED vars)
                   /\ ~ENABLED (KeyChar(c) /\ ~UNCHANGED session)
    /\ current_line < Len(sentence) =>
          SpacesAligned(typing, sentence[current_line + 1])
    /\ \A k \in 1..Len(typed) :
          k <= Len(sentence) => SpacesAligned(typed[k], sentence[k])

\* The buffer holds a word and stands at a space of the line: a whitespace
\* key is taken, any other key is turned down.
C13_Witness ==
    /\ AtExpectedChar
    /\ Len(typing) > 0
    /\ sentence[current_line + 1][Len(typing) + 1] = " "

-----------------------------------------------------------------------------
(* C14 *)

\* The step commits the current line: the buffer is pushed onto typed
CommitStep == Len(typed') = Len(typed) + 1

\* C14: a wrong non-whitespace char typed where a different non-space char is
\* expected is taken (the buffer grows by one); correct and incorrect change
\* only in a step that commits a line or in the Tab reset in Done, so no other
\* Char step and no Backspace touches them.
C14_TalliedOnlyAtCommit ==
    /\ [](AtExpectedChar =>
            \A c \in Keys :
                LET expected == sentence[current_line + 1][Len(typing) + 1] IN
                (~IsWhitespace(c) /\ expected # " " /\ c # expected) =>
                    /\ ENABLED (KeyChar(c) /\ Accepted(c))
                    /\ ~ENABLED (KeyChar(c) /\ ~Accepted(c)))
    /\ [][<<correct, incorrect>>' # <<correct, incorrect>> =>
            \/ CommitStep /\ \E c \in Keys : KeyChar(c)
            \/ KeyTab /\ done # "None"]_vars
    /\ [][KeyBackspace => UNCHANGED <<correct, incorrect>>]_vars

\* A wrong char sits in the buffer where another non-space char is expected,
\* and nothing has been tallied
C14_Witness ==
    /\ AtExpectedChar
    /\ Len(typing) = 1
    /\ ~IsWhitespace(typing[1])
    /\ sentence[current_line + 1][1] \notin {" ", typing[1]}
    /\ correct = 0 /\ incorrect = 0

-----------------------------------------------------------------------------
(* C15 *)

\* Something is typed or committed and the session is not finished
InProgress == (Len(typing) > 0 \/ current_line > 0) /\ done = "None"

\* C15: while something is typed or committed and the session is not
\* finished, Left, Right and Tab leave the session as it is: no quote is
\* loaded and the group, the lines, the buffer, the committed lines and the
\* counters keep their values.
C15_NavigationIgnoredInProgress ==
    [][(InProgress /\ (KeyLeft \/ KeyRight \/ KeyTab)) =>
          UNCHANGED <<session, groups, sentence_source, picked, panic>>]_vars

\* The first line is committed, the buffer is empty, the session is not
\* finished: only the committed line tells it from an idle session
C15_Witness ==
    /\ Running
    /\ InProgress
    /\ current_line = 1
    /\ typing = <<>>
    /\ Len(groups) > 1

-----------------------------------------------------------------------------
(* C16 *)

\* C16: Tab in a finished session resets it in full: afterwards correct,
\* incorrect and words are 0, current_line is 0, the buffer and the committed
\* lines are empty, done is None, selected_group is what it was, and the
\* lines are the wrapping of a quote of the selected group; the session is
\* idle, and it is drawn without a panic.
C16_TabInDoneResets ==
    [][(KeyTab /\ done # "None") =>
          /\ correct' = 0 /\ incorrect' = 0 /\ words' = 0
          /\ current_line' = 0
          /\ typing' = <<>>
          /\ typed' = <<>>
          /\ done' = "None"
          /\ selected_group' = selected_group
          /\ picked' \in ValidIds(data, selected_group)
          /\ sentence' = Wrap(QuoteById(data, picked').text)
          /\ sentence_source' = QuoteById(data, picked').source
          /\ panic' = ""]_vars

\* A finished session with words counted and mistakes tallied: all of it is
\* there for the Tab to reset
C16_Witness ==
    /\ Running
    /\ done # "None"
    /\ words > 0
    /\ incorrect > 0
    /\ correct > 0
    /\ typed # <<>>

-----------------------------------------------------------------------------
(* C17 *)

\* C17: done marks the end of the session.  Once the first quote is
\* requested, done is set iff current_line = lines.len(); it is set only by
\* a Char step that commits the last line; while it is set only Tab changes
\* it, and no line is committed.
C17_DoneIsTerminalMarker ==
    /\ [](started => (done # "None" <=> current_line = Len(sentence)))
    /\ [][(done = "None" /\ done' # "None") =>
            /\ \E c \in Keys : KeyChar(c)
            /\ CommitStep
            /\ sentence' = sentence
            /\ current_line + 1 = Len(sentence)
            /\ current_line' = Len(sentence)]_vars
    /\ [][(done # "None" /\ ~KeyTab) => (done' = done /\ ~CommitStep)]_vars

\* The second and last line of a quote of two lines is committed
C17_Witness ==
    /\ Running
    /\ done # "None"
    /\ Len(sentence) = 2
    /\ current_line = 2
    /\ Len(typed) = 2

-----------------------------------------------------------------------------
(* C18 *)

\* The first two parts of the data-model invariant: current_line is an index
\* into the lines or one past them, and the committed lines are the lines
\* before current_line, char count for char count
CommittedMatchesLines ==
    /\ 0 <= current_line /\ current_line <= Len(sentence)
    /\ Len(typed) = current_line
    /\ \A i \in 1..Len(typed) :
          i <= Len(sentence) => Len(typed[i]) = Len(sentence[i])

\* C18: once the first quote is requested, 0 <= current_line <= lines.len(),
\* committed.len() = current_line with committed[i] as long in chars as
\* lines[i], and while done is None the buffer holds fewer chars than the
\* current line.
C18_SessionInvariant ==
    started =>
        /\ CommittedMatchesLines
        /\ done = "None" =>
              /\ current_line < Len(sentence)
              /\ Len(typing) < Len(sentence[current_line + 1])

-----------------------------------------------------------------------------
(* C19 *)

\* The expected chars at the positions already typed: the lines before
\* current_line in full, then the chars of the current line that the buffer
\* covers
ExpectedSoFar ==
    LET n == IF current_line <= Len(sentence) THEN current_line ELSE Len(sentence)
        before == Concat(SubSeq(sentence, 1, n))
    IN  IF current_line < Len(sentence)
        THEN LET part == sentence[current_line + 1]
                 k == IF Len(typing) <= Len(part) THEN Len(typing) ELSE Len(part)
             IN  before \o SubSeq(part, 1, k)
        ELSE before

\* C19: words is the number of spaces among the expected chars at the
\* positions already typed; an idle session has words = correct = incorrect
\* = 0; and whenever the buffer ends in whitespace words is at least 1, so
\* the Backspace decrement never reaches its floor.
C19_WordsIsSpacesTyped ==
    /\ words = Spaces(ExpectedSoFar)
    /\ Idle => (words = 0 /\ correct = 0 /\ incorrect = 0)
    /\ (typing # <<>> /\ IsWhitespace(typing[Len(typing)])) => words >= 1

\* The buffer of a live session ends in the one whitespace typed so far: the
\* state in which Backspace takes words from 1 to 0
C19_Witness ==
    /\ Running
    /\ typing # <<>>
    /\ IsWhitespace(typing[Len(typing)])
    /\ words = 1
    /\ current_line = 0

-----------------------------------------------------------------------------
(* C20 *)

\* C20: every line of the wrapped quote holds at least one char, and in
\* every live session that is not finished the buffer stands at a char of
\* the current line and the key of that char is taken and drawn without a
\* panic - each such key adds a typed position, so typing the expected chars
\* ends in Done.
C20_Completable ==
    Running =>
        /\ \A i \in 1..Len(sentence) : sentence[i] # <<>>
        /\ done = "None" =>
              /\ AtExpectedChar
              /\ LET expected == sentence[current_line + 1][Len(typing) + 1] IN
                 ENABLED (KeyChar(expected) /\ Accepted(expected) /\ panic' = "")

=============================================================================
